---- MODULE Spec2Model ----
(***************************************************************************)
(* Model of src/dqn.py: the experience replay memory (class Replay) and    *)
(* the DQN training core (class Trainer).                                  *)
(*                                                                         *)
(* Numbers.  Python floats are modelled as exact rationals written as      *)
(* integers over a fixed denominator; rewards, Q-values and gamma are      *)
(* integers.  Non-finite floats (inf, nan) are not modelled.               *)
(*                                                                         *)
(* Tensors.  A tensor is a sequence of rows: torch.tensor([x]) is <<x>>,   *)
(* torch.tensor([[x]]) is << <<x>> >>, torch.cat concatenates along the    *)
(* first dimension.  An observation (an (S,) vector) is one integer.       *)
(*                                                                         *)
(* Networks.  The function approximator is external to dqn.py.  It is      *)
(* modelled as a parameter vector <<w, v>> (its state_dict) with the       *)
(* forward pass Q(s, 0) = w + s, Q(s, 1) = 2 * v.  The optimizer is        *)
(* opaque: a step replaces the online parameters by any parameter vector.  *)
(***************************************************************************)
EXTENDS Integers, Sequences, FiniteSets, TLC

VARIABLES
    cfg,         \* Trainer.cfg, the configuration object
    capacity,    \* Replay.capacity
    buffer,      \* Replay.buffer, a Python list (0-based; buffer[i+1] here)
    index,       \* Replay.index
    steps,       \* Trainer.steps
    net,         \* parameters of Trainer.net (online network)
    target_net,  \* parameters of Trainer.target_net
    optimizer,   \* Trainer.optimizer: number of optimizer.step() calls made
    last,        \* the most recent call: its arguments, result and error
    pushed,      \* history: every transition stored by push, in order
    nChoose      \* history: number of choose_action calls made

vars == <<cfg, capacity, buffer, index, steps, net, target_net, optimizer,
          last, pushed, nChoose>>

\* ---------------------------------------------------------------- bounds
MaxCap == 2          \* largest replay capacity of the replay-memory runs
MaxPush == 4         \* pushes in a run of the replay memory alone
MaxBatch == 2        \* largest batch size passed to sample directly
NInputs == 4         \* kinds of push call in the replay-memory runs
MaxTrainPush == 2    \* pushes in a run of the trainer
MaxSteps == 2        \* cap on Trainer.steps
MaxOptSteps == 2     \* cap on optimizer steps
MaxCfgBatch == 2     \* largest cfg.batch_size
MaxInterval == 2     \* largest cfg.train_interval / target_update_interval
MaxEps == 3          \* largest eps.start / eps.end numerator
MaxDecay == 3        \* largest eps.decay
EpsDen == 4          \* eps.start and eps.end are multiples of 1/EpsDen
UDen == 2            \* random.random() draws a multiple of 1/UDen in [0,1)
MaxGamma == 2        \* largest cfg.gamma of the TD-target runs

States == 0..1       \* observations
Actions == 0..1      \* env.action_space
TrainCaps == 1..2    \* values of cfg.replay_capacity in the trainer runs
TrainInputs == 0..1  \* kinds of push call in the trainer runs

\* -------------------------------------------------------------- helpers
Max(a, b) == IF a >= b THEN a ELSE b

RECURSIVE Cat(_)
\* torch.cat: concatenation of a sequence of tensors along dimension 0
Cat(ts) == IF ts = <<>> THEN <<>> ELSE Head(ts) \o Cat(Tail(ts))

\* ------------------------------------------------------------ Transition
\* namedtuple Transition as stored by push (every field a 1-row tensor)
Transition(state, action, next_state, reward, done) ==
    [state |-> state, action |-> action, next_state |-> next_state,
     reward |-> reward, done |-> done]

\* the placeholder appended by push before the slot is written
NoneSlot == Transition(<<>>, <<>>, <<>>, <<>>, <<>>)

\* the arguments of the id-th kind of push call the caller makes: the
\* kinds differ pairwise, and every field takes more than one value
PushArgs(id) ==
    [state |-> id, action |-> id % 2, next_state |-> (id + 1) % 2,
     reward |-> 1 - ((id \div 2) % 2), done |-> (id % 3 = 1)]

\* lines 44-48: the tensors push builds from its arguments
ToTensors(a) ==
    Transition(<<a.state>>, << <<a.action>> >>, <<a.next_state>>,
               <<a.reward>>, <<a.done>>)

\* ------------------------------------------------------- the last call
NoBatch == [states |-> <<>>, actions |-> <<>>, next_states |-> <<>>,
            rewards |-> <<>>, dones |-> <<>>]

NoCall == [op |-> "none", err |-> "none", b |-> 0, double |-> FALSE,
           batch |-> NoBatch, skipped |-> FALSE, stepped |-> FALSE,
           next_q |-> <<>>, target |-> <<>>, synced |-> FALSE,
           eps |-> 0, branch |-> "none", action |-> 0]

\* ------------------------------------------------------------- Replay
\* Replay.__len__
ReplayLen(buf) == Len(buf)

\* push that stops advancing the write index once the memory is full
PushStuck(cap, buf, idx, t) ==
    LET buf1 == IF Len(buf) < cap THEN Append(buf, NoneSlot) ELSE buf
    IN  IF idx >= Len(buf1)
        THEN [err |-> "IndexError", buffer |-> buf1, index |-> idx]
        ELSE [err |-> "none",
              buffer |-> [buf1 EXCEPT ![idx + 1] = t],
              index |-> IF Len(buf) < cap THEN (idx + 1) % cap ELSE idx]

\* push that advances the write index without wrapping it
PushNoWrap(cap, buf, idx, t) ==
    LET buf1 == IF Len(buf) < cap THEN Append(buf, NoneSlot) ELSE buf
    IN  IF idx >= Len(buf1)
        THEN [err |-> "IndexError", buffer |-> buf1, index |-> idx]
        ELSE [err |-> "none",
              buffer |-> [buf1 EXCEPT ![idx + 1] = t],
              index |-> idx + 1]

\* push into a memory without a capacity: every transition is appended
PushUnbounded(cap, buf, idx, t) ==
    [err |-> "none", buffer |-> Append(buf, t), index |-> idx + 1]

\* Replay.push, lines 50-53, as a function of the replay memory:
\* the outcome [err, buffer, index] of pushing the tensors t
PushOutcome(cap, buf, idx, t) ==
    LET buf1 == IF Len(buf) < cap THEN Append(buf, NoneSlot) ELSE buf
    IN  IF idx >= Len(buf1)
        THEN [err |-> "IndexError", buffer |-> buf1, index |-> idx]
        ELSE [err |-> "none",
              buffer |-> [buf1 EXCEPT ![idx + 1] = t],
              index |-> (idx + 1) % cap]

\* random.sample(population, k): the k-length selections without replacement
RandomSample(n, k) ==
    {f \in [1..k -> 1..n] : \A i, j \in 1..k : i # j => f[i] # f[j]}

\* lines 66-73: zip the sampled transitions into columns and concatenate
BatchOf(transitions) ==
    LET k == Len(transitions)
    IN  [states      |-> Cat([i \in 1..k |-> transitions[i].state]),
         actions     |-> Cat([i \in 1..k |-> transitions[i].action]),
         next_states |-> Cat([i \in 1..k |-> transitions[i].next_state]),
         rewards     |-> Cat([i \in 1..k |-> transitions[i].reward]),
         dones       |-> Cat([i \in 1..k |-> transitions[i].done])]

\* sample that returns the whole memory when asked for more than it holds
SampleClamped(buf, batch_size) ==
    IF batch_size < 0
    THEN {[err |-> "ValueError", batch |-> NoBatch]}
    ELSE IF batch_size = 0
    THEN {[err |-> "TypeError", batch |-> NoBatch]}
    ELSE LET k == IF batch_size > Len(buf) THEN Len(buf) ELSE batch_size
         IN  {[err |-> "none",
               batch |-> BatchOf([i \in 1..k |-> buf[f[i]]])] :
              f \in RandomSample(Len(buf), k)}

\* Replay.sample: the set of outcomes [err, batch] of sample(batch_size)
SampleOutcomes(buf, batch_size) ==
    IF batch_size < 0 \/ batch_size > Len(buf)
    THEN {[err |-> "ValueError", batch |-> NoBatch]}
    ELSE IF batch_size = 0
    THEN {[err |-> "TypeError", batch |-> NoBatch]}
    ELSE {[err |-> "none",
           batch |-> BatchOf([i \in 1..batch_size |-> buf[f[i]]])] :
          f \in RandomSample(Len(buf), batch_size)}

\* replay.push(state, action, next_state, reward, done)
Push(a, bound) ==
    /\ Len(pushed) < bound
    /\ LET o == PushOutcome(capacity, buffer, index, ToTensors(a))
       IN  /\ buffer' = o.buffer
           /\ index' = o.index
           /\ last' = [NoCall EXCEPT !.op = "push", !.err = o.err]
           /\ pushed' = IF o.err = "none"
                        THEN Append(pushed, ToTensors(a)) ELSE pushed
    /\ UNCHANGED <<cfg, capacity, steps, net, target_net, optimizer, nChoose>>

\* a sample that removes the transitions it returns from the memory
SampleConsuming(b) ==
    /\ \E o \in SampleOutcomes(buffer, b) :
          /\ last' = [NoCall EXCEPT !.op = "sample", !.err = o.err, !.b = b,
                                    !.batch = o.batch]
          /\ buffer' = IF o.err = "none"
                       THEN SubSeq(buffer, 1, Len(buffer) - b) ELSE buffer
    /\ index' = Len(buffer')
    /\ UNCHANGED <<cfg, capacity, steps, net, target_net, optimizer, pushed,
                   nChoose>>

\* replay.sample(b, device), called directly
Sample(b) ==
    /\ \E o \in SampleOutcomes(buffer, b) :
          last' = [NoCall EXCEPT !.op = "sample", !.err = o.err, !.b = b,
                                 !.batch = o.batch]
    /\ UNCHANGED <<cfg, capacity, buffer, index, steps, net, target_net,
                   optimizer, pushed, nChoose>>

\* ------------------------------------------------------------ networks
\* the parameter vectors (state_dict) a network can hold
Params == {<<0, 1>>, <<1, 1>>}

\* self.net(x) / self.target_net(x) on one row: the Q-value of each action
Forward(p, s) == <<p[1] + s, 2 * p[2]>>

\* tensor.max(1) on one row: the maximum and the first index attaining it
MaxValue(q) == Max(q[1], q[2])
ArgMax(q) == IF q[1] >= q[2] THEN 0 ELSE 1

\* tensor.gather(1, a) on one row
Gather(q, a) == q[a + 1]

\* a copy that leaves the destination as it was
LoadNothing(dst, src) == dst

\* copy.deepcopy(net) and target_net.load_state_dict(net.state_dict()):
\* the parameters the destination holds afterwards
LoadStateDict(dst, src) == src

\* ------------------------------------------------------------- Trainer
\* eps_threshold without the clamp at zero
EpsUnclamped(c, s) ==
    c.eps.end * c.eps.decay + (c.eps.start - c.eps.end) * (c.eps.decay - s)

\* line 118, eps_threshold, as the numerator of a fraction whose
\* denominator is EpsDen * c.eps.decay:
\*   end + (start - end) * max(1 - steps / decay, 0)
EpsThreshold(c, s) ==
    c.eps.end * c.eps.decay
        + (c.eps.start - c.eps.end) * Max(c.eps.decay - s, 0)

\* line 119, random.random() < eps_threshold, for u / UDen drawn in [0, 1)
Explore(c, s, u) == u * EpsDen * c.eps.decay < EpsThreshold(c, s) * UDen

\* a step counter that counts only the greedy calls
StepsGreedyOnly(branch, s) == IF branch = "greedy" THEN s + 1 ELSE s

\* line 126: the step counter after a choose_action call on either branch
StepsAfter(branch, s) == s + 1

\* a gate that does not look at the length of the replay memory
SkipNoLength(c, s, n) == s % c.train_interval # 0

\* a gate that skips only when both conditions hold
SkipBoth(c, s, n) == s % c.train_interval # 0 /\ n < c.batch_size

\* a gate that wants more transitions than one batch
SkipStrict(c, s, n) == s % c.train_interval # 0 \/ n <= c.batch_size

\* line 139: the gate of optimize (cfg.train_interval # 0)
Skip(c, s, n) == s % c.train_interval # 0 \/ n < c.batch_size

\* lines 148-156: V(s_{t+1}) for every row of next_states; double is the
\* argument of optimize, p and tp the online and target parameters
NextQ(c, double, p, tp, next_states) ==
    [i \in 1..Len(next_states) |->
        IF c.double
        THEN Gather(Forward(tp, next_states[i]),
                    ArgMax(Forward(p, next_states[i])))
        ELSE MaxValue(Forward(tp, next_states[i]))]

\* dones.float()
Float(d) == IF d THEN 1 ELSE 0

\* a TD target that bootstraps from terminal transitions too
TDTargetUnmasked(c, rewards, dones, next_q) ==
    [i \in 1..Len(rewards) |-> rewards[i] + c.gamma * next_q[i]]

\* line 157: target = rewards + (1 - dones.float()) * cfg.gamma * next_q
TDTarget(c, rewards, dones, next_q) ==
    [i \in 1..Len(rewards) |->
        rewards[i] + (1 - Float(dones[i])) * c.gamma * next_q[i]]

\* trainer.choose_action(obs): u is the random.random() draw and a the
\* action env.action_space.sample() would return
ChooseAction(obs, u, a) ==
    /\ steps < MaxSteps
    /\ cfg.eps.decay # 0
    /\ LET branch == IF Explore(cfg, steps, u) THEN "random" ELSE "greedy"
           action == IF branch = "random" THEN a
                     ELSE ArgMax(Forward(net, obs))
       IN  /\ steps' = StepsAfter(branch, steps)
           /\ last' = [NoCall EXCEPT !.op = "choose_action",
                                     !.eps = EpsThreshold(cfg, steps),
                                     !.branch = branch, !.action = action]
    /\ nChoose' = nChoose + 1
    /\ UNCHANGED <<cfg, capacity, buffer, index, net, target_net, optimizer,
                   pushed>>

\* trainer.optimize(double), line 139 raising on a zero train_interval
OptimizeRaise(double) ==
    /\ cfg.train_interval = 0
    /\ last' = [NoCall EXCEPT !.op = "optimize", !.double = double,
                              !.err = "ZeroDivisionError"]
    /\ UNCHANGED <<cfg, capacity, buffer, index, steps, net, target_net,
                   optimizer, pushed, nChoose>>

\* trainer.optimize(double), returning at line 140
OptimizeSkip(double) ==
    /\ cfg.train_interval # 0
    /\ Skip(cfg, steps, ReplayLen(buffer))
    /\ last' = [NoCall EXCEPT !.op = "optimize", !.double = double,
                              !.skipped = TRUE]
    /\ UNCHANGED <<cfg, capacity, buffer, index, steps, net, target_net,
                   optimizer, pushed, nChoose>>

\* trainer.optimize(double), line 142 raising inside replay.sample
OptimizeSampleRaise(double) ==
    /\ cfg.train_interval # 0
    /\ ~Skip(cfg, steps, ReplayLen(buffer))
    /\ \E o \in SampleOutcomes(buffer, cfg.batch_size) :
          /\ o.err # "none"
          /\ last' = [NoCall EXCEPT !.op = "optimize", !.double = double,
                                    !.err = o.err]
    /\ UNCHANGED <<cfg, capacity, buffer, index, steps, net, target_net,
                   optimizer, pushed, nChoose>>

\* an optimize whose target network is the online network itself (no
\* deepcopy): every gradient step moves the target too
OptimizeAliased(double, stepped) ==
    /\ cfg.train_interval # 0
    /\ ~Skip(cfg, steps, ReplayLen(buffer))
    /\ optimizer < MaxOptSteps
    /\ \E o \in SampleOutcomes(buffer, cfg.batch_size) :
          /\ o.err = "none"
          /\ LET next_q == NextQ(cfg, double, net, target_net,
                                 o.batch.next_states)
                 target == TDTarget(cfg, o.batch.rewards, o.batch.dones,
                                    next_q)
                 raise  == cfg.target_update_interval = 0
                 sync   == ~raise /\ steps % cfg.target_update_interval = 0
             IN  /\ net' = stepped
                 /\ optimizer' = optimizer + 1
                 /\ target_net' = stepped
                 /\ last' = [NoCall EXCEPT
                        !.op = "optimize", !.double = double,
                        !.err = IF raise THEN "ZeroDivisionError" ELSE "none",
                        !.batch = o.batch, !.stepped = TRUE,
                        !.next_q = next_q, !.target = target,
                        !.synced = sync]
    /\ UNCHANGED <<cfg, capacity, buffer, index, steps, pushed, nChoose>>

\* an optimize that syncs the target network first, then bootstraps from
\* it and takes the gradient step
OptimizeSyncFirst(double, stepped) ==
    /\ cfg.train_interval # 0
    /\ ~Skip(cfg, steps, ReplayLen(buffer))
    /\ optimizer < MaxOptSteps
    /\ \E o \in SampleOutcomes(buffer, cfg.batch_size) :
          /\ o.err = "none"
          /\ LET raise  == cfg.target_update_interval = 0
                 sync   == ~raise /\ steps % cfg.target_update_interval = 0
                 tp     == IF sync THEN LoadStateDict(target_net, net)
                           ELSE target_net
                 next_q == NextQ(cfg, double, net, tp, o.batch.next_states)
                 target == TDTarget(cfg, o.batch.rewards, o.batch.dones,
                                    next_q)
             IN  /\ net' = stepped
                 /\ optimizer' = optimizer + 1
                 /\ target_net' = tp
                 /\ last' = [NoCall EXCEPT
                        !.op = "optimize", !.double = double,
                        !.err = IF raise THEN "ZeroDivisionError" ELSE "none",
                        !.batch = o.batch, !.stepped = TRUE,
                        !.next_q = next_q, !.target = target,
                        !.synced = sync]
    /\ UNCHANGED <<cfg, capacity, buffer, index, steps, pushed, nChoose>>

\* trainer.optimize(double), lines 142-167: one gradient step, then the
\* periodic hard sync; stepped is the online network after optimizer.step()
OptimizeStep(double, stepped) ==
    /\ cfg.train_interval # 0
    /\ ~Skip(cfg, steps, ReplayLen(buffer))
    /\ optimizer < MaxOptSteps
    /\ \E o \in SampleOutcomes(buffer, cfg.batch_size) :
          /\ o.err = "none"
          /\ LET next_q == NextQ(cfg, double, net, target_net,
                                 o.batch.next_states)
                 target == TDTarget(cfg, o.batch.rewards, o.batch.dones,
                                    next_q)
                 raise  == cfg.target_update_interval = 0
                 sync   == ~raise /\ steps % cfg.target_update_interval = 0
             IN  /\ net' = stepped
                 /\ optimizer' = optimizer + 1
                 /\ target_net' = IF sync
                                  THEN LoadStateDict(target_net, stepped)
                                  ELSE target_net
                 /\ last' = [NoCall EXCEPT
                        !.op = "optimize", !.double = double,
                        !.err = IF raise THEN "ZeroDivisionError" ELSE "none",
                        !.batch = o.batch, !.stepped = TRUE,
                        !.next_q = next_q, !.target = target,
                        !.synced = sync]
    /\ UNCHANGED <<cfg, capacity, buffer, index, steps, pushed, nChoose>>

\* trainer.update_target_net()
UpdateTargetNet ==
    /\ target_net' = LoadStateDict(target_net, net)
    /\ last' = [NoCall EXCEPT !.op = "update_target_net"]
    /\ UNCHANGED <<cfg, capacity, buffer, index, steps, net, optimizer,
                   pushed, nChoose>>

\* ------------------------------------------------------ configurations
Cfg(cap, bs, ti, tui, dbl, g, e) ==
    [replay_capacity |-> cap, batch_size |-> bs, train_interval |-> ti,
     target_update_interval |-> tui, double |-> dbl, gamma |-> g, eps |-> e]

Eps(start, end, decay) == [start |-> start, end |-> end, decay |-> decay]

\* the exploration schedule of the trainer runs: from 1 down to 1/EpsDen
DefaultEps == Eps(EpsDen, 1, 1)

\* configurations of the runs of the replay memory alone
ReplayCfgs ==
    {Cfg(cap, 1, 1, 1, FALSE, 1, DefaultEps) : cap \in 0..MaxCap}

\* configurations of the trainer runs
TrainerCfgs ==
    {Cfg(cap, bs, ti, tui, dbl, g, DefaultEps) :
        cap \in TrainCaps, bs \in 1..MaxCfgBatch, ti \in 1..MaxInterval,
        tui \in 1..MaxInterval, dbl \in BOOLEAN, g \in {1}}

\* configurations of the TD-target runs: every step trains
TargetCfgs ==
    {Cfg(2, bs, 1, 1, dbl, g, DefaultEps) :
        bs \in 1..2, dbl \in BOOLEAN, g \in 0..MaxGamma}

\* configurations in which a capacity, batch size or interval is zero
InvalidCfgs ==
    {c \in {Cfg(cap, bs, ti, tui, FALSE, 1, DefaultEps) :
               cap \in 0..1, bs \in 0..1, ti \in 0..1, tui \in 0..1} :
        \/ c.replay_capacity = 0
        \/ c.batch_size = 0
        \/ c.train_interval = 0
        \/ c.target_update_interval = 0}

\* configurations of any kind: zero or positive capacity, batch size and
\* intervals
AnyCfgs ==
    {Cfg(cap, bs, ti, tui, FALSE, 1, DefaultEps) :
        cap \in 0..2, bs \in 0..MaxCfgBatch, ti \in 0..1, tui \in 0..1}

\* configurations of the exploration-schedule runs
EpsCfgs ==
    {Cfg(1, 1, 1, 1, FALSE, 1, Eps(s, e, d)) :
        s \in 0..MaxEps, e \in 0..MaxEps, d \in 1..MaxDecay}

\* Replay.__init__ and Trainer.__init__ for a configuration in cfgs and a
\* network with parameters in nets
Construct(cfgs, nets) ==
    /\ cfg \in cfgs
    /\ capacity = cfg.replay_capacity
    /\ buffer = <<>>
    /\ index = 0
    /\ steps = 0
    /\ net \in nets
    /\ target_net = LoadStateDict(net, net)
    /\ optimizer = 0
    /\ last = NoCall
    /\ pushed = <<>>
    /\ nChoose = 0

\* ------------------------------------------------------ specifications
\* the replay memory alone
InitReplay == Construct(ReplayCfgs, {<<0, 1>>})

NextReplay ==
    \/ \E id \in 0..(NInputs - 1) : Push(PushArgs(id), MaxPush)
    \/ \E b \in 0..MaxBatch : Sample(b)

SpecReplay == InitReplay /\ [][NextReplay]_vars

\* the trainer
Init == Construct(TrainerCfgs, {<<0, 1>>})

Next ==
    \/ \E obs \in States, u \in 0..(UDen - 1), a \in Actions :
          ChooseAction(obs, u, a)
    \/ \E id \in TrainInputs : Push(PushArgs(id), MaxTrainPush)
    \/ \E b \in 0..MaxCfgBatch : Sample(b)
    \/ \E double \in BOOLEAN : OptimizeSkip(double)
    \/ \E double \in BOOLEAN, stepped \in Params : OptimizeStep(double, stepped)
    \/ UpdateTargetNet

Spec == Init /\ [][Next]_vars

\* the exploration schedule
InitEps == Construct(EpsCfgs, {<<0, 1>>})

NextEps ==
    \E obs \in States, u \in 0..(UDen - 1), a \in Actions :
        ChooseAction(obs, u, a)

SpecEps == InitEps /\ [][NextEps]_vars

\* the trainer built from a configuration with a zero capacity, batch size
\* or interval: __init__ accepts it, and the calls raise later
InitInvalid == Construct(InvalidCfgs, {<<0, 1>>})

NextInvalid ==
    \/ Next
    \/ \E double \in BOOLEAN : OptimizeRaise(double)
    \/ \E double \in BOOLEAN : OptimizeSampleRaise(double)

SpecInvalid == InitInvalid /\ [][NextInvalid]_vars

\* the trainer built from any configuration, valid or not
InitAny == Construct(AnyCfgs, {<<0, 1>>})

SpecAny == InitAny /\ [][NextInvalid]_vars

\* ------------------------------------------------------ the caller cycle
\* The caller repeats choose_action, push, optimize for ever.  optimize
\* reads the step counter only modulo the two intervals and choose_action
\* only through max(1 - steps / decay, 0), which is 0 from steps = decay
\* on: the counter is kept modulo StepsPeriod, a common multiple of every
\* interval, above decay = 1, which keeps all these readings exact.  The
\* counters optimizer, pushed and nChoose are not kept in this run.
RECURSIVE Factorial(_)
Factorial(n) == IF n <= 1 THEN 1 ELSE n * Factorial(n - 1)

StepsPeriod == Factorial(MaxInterval)

StepsWrapped(s) == IF s > StepsPeriod THEN s - StepsPeriod ELSE s

\* the configurations of the cycle: replay_capacity >= batch_size >= 1
CycleCfgs == {c \in TrainerCfgs : c.replay_capacity >= c.batch_size}

\* obs = env.reset() / env.step(); action = trainer.choose_action(obs)
CycleChoose(obs, u, a) ==
    /\ last.op \in {"none", "optimize"}
    /\ LET branch == IF Explore(cfg, steps, u) THEN "random" ELSE "greedy"
           action == IF branch = "random" THEN a
                     ELSE ArgMax(Forward(net, obs))
       IN  /\ steps' = StepsWrapped(StepsAfter(branch, steps))
           /\ last' = [NoCall EXCEPT !.op = "choose_action",
                                     !.eps = EpsThreshold(cfg, steps),
                                     !.branch = branch, !.action = action]
    /\ UNCHANGED <<cfg, capacity, buffer, index, net, target_net, optimizer,
                   pushed, nChoose>>

\* trainer.replay.push(...) of the transition the environment returned
CyclePush(a) ==
    /\ last.op = "choose_action"
    /\ LET o == PushOutcome(capacity, buffer, index, ToTensors(a))
       IN  /\ buffer' = o.buffer
           /\ index' = o.index
           /\ last' = [NoCall EXCEPT !.op = "push", !.err = o.err]
    /\ UNCHANGED <<cfg, capacity, steps, net, target_net, optimizer, pushed,
                   nChoose>>

\* trainer.optimize(double), returning at line 140
CycleOptimizeSkip(double) ==
    /\ last.op = "push"
    /\ Skip(cfg, steps, ReplayLen(buffer))
    /\ last' = [NoCall EXCEPT !.op = "optimize", !.double = double,
                              !.skipped = TRUE]
    /\ UNCHANGED <<cfg, capacity, buffer, index, steps, net, target_net,
                   optimizer, pushed, nChoose>>

\* trainer.optimize(double), lines 142-167
CycleOptimizeStep(double, stepped) ==
    /\ last.op = "push"
    /\ ~Skip(cfg, steps, ReplayLen(buffer))
    /\ \E o \in SampleOutcomes(buffer, cfg.batch_size) :
          /\ o.err = "none"
          /\ LET next_q == NextQ(cfg, double, net, target_net,
                                 o.batch.next_states)
                 target == TDTarget(cfg, o.batch.rewards, o.batch.dones,
                                    next_q)
                 sync   == steps % cfg.target_update_interval = 0
             IN  /\ net' = stepped
                 /\ target_net' = IF sync
                                  THEN LoadStateDict(target_net, stepped)
                                  ELSE target_net
                 /\ last' = [NoCall EXCEPT
                        !.op = "optimize", !.double = double,
                        !.batch = o.batch, !.stepped = TRUE,
                        !.next_q = next_q, !.target = target,
                        !.synced = sync]
    /\ UNCHANGED <<cfg, capacity, buffer, index, steps, optimizer, pushed,
                   nChoose>>

InitCycle == Construct(CycleCfgs, {<<0, 1>>})

NextCycle ==
    \/ \E obs \in States, u \in 0..(UDen - 1), a \in Actions :
          CycleChoose(obs, u, a)
    \/ \E id \in TrainInputs : CyclePush(PushArgs(id))
    \/ \E double \in BOOLEAN : CycleOptimizeSkip(double)
    \/ \E double \in BOOLEAN, stepped \in Params :
          CycleOptimizeStep(double, stepped)

\* the caller never stops: some call of the cycle is always enabled
SpecCycle == InitCycle /\ [][NextCycle]_vars /\ WF_vars(NextCycle)

\* the trainer, for the TD target
InitTarget == Construct(TargetCfgs, {<<0, 1>>})

SpecTarget == InitTarget /\ [][Next]_vars

\* ------------------------------------------------- the replay memory
Distinct(seq) == \A i, j \in 1..Len(seq) : i # j => seq[i] # seq[j]

Stored == {buffer[j] : j \in 1..Len(buffer)}

\* C1: after C + k distinct transitions (k >= 1) were pushed into an empty
\* memory of capacity C >= 1, the memory holds C transitions, none of the
\* first k pushed, and exactly the last C pushed.
RingOverwrite ==
    (capacity >= 1 /\ Len(pushed) > capacity /\ Distinct(pushed)) =>
        LET n == Len(pushed)
            k == n - capacity
        IN  /\ Len(buffer) = capacity
            /\ \A i \in 1..k : pushed[i] \notin Stored
            /\ Stored = {pushed[i] : i \in (k + 1)..n}

RingOverwriteWitness ==
    /\ capacity >= 2
    /\ Len(pushed) >= capacity + 2
    /\ Distinct(pushed)
    /\ last.op = "push"

AlignedDistinct(batch, buf, b) ==
    /\ Len(batch.states) = b
    /\ Len(batch.actions) = b
    /\ Len(batch.next_states) = b
    /\ Len(batch.rewards) = b
    /\ Len(batch.dones) = b
    /\ \E f \in [1..b -> 1..Len(buf)] :
          /\ \A i, j \in 1..b : i # j => f[i] # f[j]
          /\ \A i \in 1..b :
                /\ <<batch.states[i]>> = buf[f[i]].state
                /\ <<batch.actions[i]>> = buf[f[i]].action
                /\ <<batch.next_states[i]>> = buf[f[i]].next_state
                /\ <<batch.rewards[i]>> = buf[f[i]].reward
                /\ <<batch.dones[i]>> = buf[f[i]].done

\* C3: sample(b) on a memory holding n >= b transitions returns five
\* index-aligned sequences of length b whose rows come from b distinct
\* slots.
SampleAligned ==
    (capacity >= 1 /\ last.op = "sample" /\ last.b <= Len(buffer)) =>
        /\ last.err = "none"
        /\ AlignedDistinct(last.batch, buffer, last.b)

\* C4: sample(b) on a memory holding n < b transitions fails (random.sample
\* raises ValueError, the insufficient-samples error) and returns no batch.
SampleInsufficient ==
    (last.op = "sample" /\ Len(buffer) < last.b) =>
        /\ last.err = "ValueError"
        /\ last.batch = NoBatch

SampleInsufficientWitness ==
    /\ last.op = "sample"
    /\ Len(buffer) >= 1
    /\ Len(buffer) < last.b
    /\ last.err = "ValueError"

\* -------------------------------------------------------- the trainer
\* C5: optimize called while steps mod train_interval # 0 or
\* len(replay) < batch_size changes neither network, nor the optimizer,
\* the replay memory or the step counter, and samples no batch.
OptimizeGated ==
    [][(/\ last'.op = "optimize"
        /\ \/ steps % cfg.train_interval # 0
           \/ Len(buffer) < cfg.batch_size)
       => /\ UNCHANGED <<net, target_net, optimizer, buffer, index, steps>>
          /\ last'.batch = NoBatch
          /\ ~last'.stepped]_vars

OptimizeGatedWitness ==
    /\ last.op = "optimize"
    /\ last.skipped
    /\ steps % cfg.train_interval # 0
    /\ Len(buffer) >= cfg.batch_size
    /\ optimizer >= 1

\* the bootstrap value of a row as the claim defines it from the argument
BootstrapByArgument(double, p, tp, s) ==
    IF double
    THEN Forward(tp, s)[ArgMax(Forward(p, s)) + 1]
    ELSE Max(Forward(tp, s)[1], Forward(tp, s)[2])

\* C6: the bootstrap value optimize uses is selected by its argument:
\* the maximum of the target network's output when it is false, the target
\* network's output at the online network's argmax when it is true.
BootstrapFollowsArgument ==
    [][(last'.op = "optimize" /\ last'.stepped) =>
          last'.next_q =
              [i \in 1..Len(last'.batch.next_states) |->
                  BootstrapByArgument(last'.double, net, target_net,
                                      last'.batch.next_states[i])]]_vars

\* C7: steps starts at 0, every choose_action call adds exactly 1 to it,
\* no other call changes it: it is the number of choose_action calls made
\* and never decreases.
StepCounter ==
    /\ [](steps = nChoose)
    /\ [][/\ steps' >= steps
          /\ last'.op = "choose_action" => steps' = steps + 1
          /\ last'.op # "choose_action" => steps' = steps]_vars

StepCounterWitness ==
    /\ nChoose = 2
    /\ steps = 2
    /\ last.op = "optimize"
    /\ last.stepped
    /\ Len(pushed) >= 1

\* C8: update_target_net can be called in every state; after it every
\* target parameter equals the corresponding online parameter, which the
\* call left alone; a second call right after changes nothing.
TargetSync ==
    /\ [](ENABLED UpdateTargetNet)
    /\ [][last'.op = "update_target_net" =>
            /\ net' = net
            /\ Len(target_net') = Len(net)
            /\ \A i \in 1..Len(net) : target_net'[i] = net[i]
            /\ last.op = "update_target_net" => UNCHANGED vars]_vars

TargetSyncWitness ==
    /\ last.op = "update_target_net"
    /\ optimizer >= 1
    /\ net # <<0, 1>>
    /\ target_net = net

\* C9: for eps.start > eps.end and eps.decay > 0 the threshold is
\* non-increasing in steps, is eps.start at steps = 0, is eps.end for every
\* steps >= eps.decay, and lies in [eps.end, eps.start].  Thresholds are
\* numerators over EpsDen * eps.decay.
EpsilonDecay ==
    (cfg.eps.start > cfg.eps.end /\ cfg.eps.decay > 0) =>
        LET lo == cfg.eps.end * cfg.eps.decay
            hi == cfg.eps.start * cfg.eps.decay
            used == steps - 1
        IN  /\ last.op = "choose_action" =>
                /\ used = 0 => last.eps = hi
                /\ used >= cfg.eps.decay => last.eps = lo
                /\ lo <= last.eps /\ last.eps <= hi
            /\ EpsThreshold(cfg, 0) = hi
            /\ \A s \in 0..(MaxSteps + MaxDecay) :
                /\ EpsThreshold(cfg, s + 1) <= EpsThreshold(cfg, s)
                /\ s >= cfg.eps.decay => EpsThreshold(cfg, s) = lo
                /\ lo <= EpsThreshold(cfg, s) /\ EpsThreshold(cfg, s) <= hi

EpsilonDecayWitness ==
    /\ cfg.eps.start > cfg.eps.end
    /\ last.op = "choose_action"
    /\ steps - 1 >= cfg.eps.decay
    /\ last.eps = cfg.eps.end * cfg.eps.decay
    /\ last.branch = "greedy"

\* C10: the TD target of a sampled transition with done = true is its
\* reward; with done = false it is reward + gamma * bootstrap value.
TerminalMasking ==
    (last.op = "optimize" /\ last.stepped) =>
        \A i \in 1..Len(last.target) :
            IF last.batch.dones[i]
            THEN last.target[i] = last.batch.rewards[i]
            ELSE last.target[i] =
                    last.batch.rewards[i] + cfg.gamma * last.next_q[i]

TerminalMaskingWitness ==
    /\ last.op = "optimize"
    /\ last.stepped
    /\ Len(last.target) = 2
    /\ \E i \in 1..2 :
          /\ last.batch.dones[i]
          /\ cfg.gamma * last.next_q[i] > 0
          /\ last.target[i] = last.batch.rewards[i]
    /\ \E i \in 1..2 :
          /\ ~last.batch.dones[i]
          /\ last.target[i] > last.batch.rewards[i]

\* -------------------------------------------------- configurations
\* a capacity, batch size or interval of the configuration is not positive
NonPositiveCfg ==
    \/ cfg.replay_capacity <= 0
    \/ cfg.batch_size <= 0
    \/ cfg.train_interval <= 0
    \/ cfg.target_update_interval <= 0

\* C11: a configuration with a non-positive capacity, batch size or
\* interval is refused at construction, so no push, choose_action or
\* optimize call ever runs against one.
InvalidCfgRefused ==
    NonPositiveCfg => last.op \notin {"push", "choose_action", "optimize"}

\* optimize got as far as calling replay.sample
OptimizeSampled ==
    /\ last.op = "optimize"
    /\ last.stepped \/ last.err \in {"ValueError", "TypeError"}

\* C12: optimize never calls sample with a batch size larger than the
\* replay memory holds: the insufficient-samples failure (ValueError) does
\* not occur in optimize.
OptimizeGuardsSample ==
    /\ OptimizeSampled => cfg.batch_size <= Len(buffer)
    /\ last.op = "optimize" => last.err # "ValueError"

OptimizeGuardsSampleWitness ==
    /\ last.op = "optimize"
    /\ last.stepped
    /\ cfg.batch_size = 2
    /\ Len(buffer) = 2
    /\ Len(pushed) = 2

\* C13: on every next state where the online network's argmax action is
\* not the target network's, optimize(double = TRUE) and
\* optimize(double = FALSE) compute different bootstrap values.
DoubleDiffersFromVanilla ==
    \A s \in States :
        ArgMax(Forward(net, s)) # ArgMax(Forward(target_net, s)) =>
            NextQ(cfg, TRUE, net, target_net, <<s>>)
                # NextQ(cfg, FALSE, net, target_net, <<s>>)

\* C14: only push changes the contents, the length or the write index of
\* the replay memory: sample, choose_action, optimize and
\* update_target_net leave them alone.
OnlyPushMutatesReplay ==
    [][last'.op # "push" =>
          /\ buffer' = buffer
          /\ Len(buffer') = Len(buffer)
          /\ index' = index]_vars

OnlyPushMutatesReplayWitness ==
    /\ last.op = "optimize"
    /\ last.stepped
    /\ Len(buffer) = 2
    /\ index = 0
    /\ nChoose >= 1

\* C15: the target parameters are the online parameters of the most
\* recent sync (construction, update_target_net, the sync ending an
\* optimize): they equal the online ones until the first gradient step, a
\* sync sets them to the online ones of that moment, a gradient step
\* without sync changes the online network only, and push, sample and
\* choose_action change neither network.
TargetIsSnapshot ==
    /\ [](optimizer = 0 => target_net = net)
    /\ [][/\ last'.op \in {"push", "sample", "choose_action"} =>
                UNCHANGED <<net, target_net>>
          /\ last'.op = "update_target_net" =>
                net' = net /\ target_net' = net
          /\ last'.op = "optimize" =>
                /\ last'.skipped => UNCHANGED <<net, target_net>>
                /\ last'.synced => target_net' = net'
                /\ ~last'.synced => target_net' = target_net]_vars

TargetIsSnapshotWitness ==
    /\ last.op = "optimize"
    /\ last.stepped
    /\ ~last.synced
    /\ optimizer = 2
    /\ net # target_net

\* the bootstrap value of a row computed from the parameters p and tp
BootstrapByConfig(p, tp, s) ==
    IF cfg.double
    THEN Forward(tp, s)[ArgMax(Forward(p, s)) + 1]
    ELSE Max(Forward(tp, s)[1], Forward(tp, s)[2])

\* C16: an optimize that is not skipped syncs the target network iff
\* steps mod target_update_interval = 0; the sync follows the optimizer
\* step, so the target then holds the online parameters after the step;
\* the bootstrap values of that call come from the target network as it
\* was before the sync.
SyncAfterStep ==
    [][(last'.op = "optimize" /\ last'.stepped) =>
          /\ last'.synced <=> (steps % cfg.target_update_interval = 0)
          /\ last'.synced => target_net' = net'
          /\ ~last'.synced => target_net' = target_net
          /\ last'.next_q =
                [i \in 1..Len(last'.batch.next_states) |->
                    BootstrapByConfig(net, target_net,
                                      last'.batch.next_states[i])]]_vars

SyncAfterStepWitness ==
    /\ last.op = "optimize"
    /\ last.stepped
    /\ last.synced
    /\ optimizer = 2
    /\ steps = 2
    /\ cfg.target_update_interval = 2
    /\ net # <<0, 1>>
    /\ target_net = net

\* C17: in the caller cycle, once the replay memory holds batch_size
\* transitions, every optimize reached with steps a multiple of
\* target_update_interval syncs the target network.
SyncEveryInterval ==
    (/\ last.op = "optimize"
     /\ Len(buffer) >= cfg.batch_size
     /\ steps % cfg.target_update_interval = 0) => last.synced

\* C18: with replay_capacity < batch_size no optimize takes a gradient
\* step or syncs the target network: both networks keep the parameters
\* they were constructed with (update_target_net copies the online
\* parameters, which are those of construction).
CapacityBelowBatch ==
    cfg.replay_capacity < cfg.batch_size =>
        /\ optimizer = 0
        /\ net = <<0, 1>>
        /\ target_net = <<0, 1>>
        /\ last.op = "optimize" => ~last.stepped /\ ~last.synced

CapacityBelowBatchWitness ==
    /\ cfg.replay_capacity = 1
    /\ cfg.batch_size = 2
    /\ cfg.train_interval = 1
    /\ Len(pushed) = 2
    /\ Len(buffer) = 1
    /\ steps = 2
    /\ last.op = "optimize"
    /\ last.skipped

\* C19: in the caller cycle repeated for ever with replay_capacity >=
\* batch_size >= 1 and both intervals >= 1, optimize takes a gradient
\* step again and again, and syncs the target network again and again.
LearningRecurs ==
    /\ []<>(last.op = "optimize" /\ last.stepped)
    /\ []<>(last.op = "optimize" /\ last.synced)

LearningRecursWitness ==
    /\ last.op = "optimize"
    /\ last.stepped
    /\ last.synced
    /\ cfg.replay_capacity = 2
    /\ cfg.batch_size = 2
    /\ cfg.train_interval = 2
    /\ cfg.target_update_interval = 2
    /\ net # <<0, 1>>
====
